---- MODULE Spec2Model ----
(***************************************************************************)
(* Model of scraper/scrape_and_push.py: the Collector (run_snscrape), the  *)
(* Deliverer (push_tweets) and the orchestration (main).                   *)
(***************************************************************************)
EXTENDS Integers, Sequences, FiniteSets, TLC

VARIABLES
    INGEST_URL,    \* module global read from the environment at import
    INGEST_TOKEN,  \* module global read from the environment at import
    pc,            \* position of main(): the run-level state
    cpc,           \* position of run_snscrape()
    popens,        \* number of subprocess.Popen calls made
    out,           \* the lines the child process has written and the loop has read
    tweets,        \* run_snscrape's local list
    returncode,    \* proc.returncode once proc.wait() has returned
    result,        \* the list run_snscrape returned
    ppc,           \* position of push_tweets()
    pushCalls,     \* the arguments of the calls of push_tweets, in order
    requests,      \* the requests handed to requests.post, in order
    response,      \* what the last requests.post call met
    pushRet,       \* the value push_tweets returned
    reported,      \* the count printed by "Success: ... tweets inserted"
    caught,        \* the exception the outer handler of run_snscrape absorbed
    escaped,       \* the exception that left run_snscrape or push_tweets
    exited,        \* whether the interpreter has exited
    exitStatus,    \* its exit status
    proc           \* the child process and its two pipes, where they are modelled

vars == <<INGEST_URL, INGEST_TOKEN, pc, cpc, popens, out, tweets, returncode,
          result, ppc, pushCalls, requests, response, pushRet, reported,
          caught, escaped, exited, exitStatus, proc>>

collectorVars == <<cpc, popens, out, tweets, returncode, result, caught>>
mainVars == <<pc, exited, exitStatus>>
pushVars == <<ppc, pushCalls, requests, response, pushRet, reported>>
envVars == <<INGEST_URL, INGEST_TOKEN>>

----------------------------------------------------------------------------
(* Bounds of the model *)

\* longest stream of arbitrary lines read in a direct call of run_snscrape
MaxLines == 4
\* lines of any kind that may follow a block of Limit identical lines
MaxTail == 2
\* longest stream read in a run of main()
MaxRunLines == 3
\* writes a pipe holds before the next write to it blocks
PipeCap == 2
\* writes a child process makes before it exits, where its pipes are modelled
MaxWrites == 3

(* Program constants *)

\* tweets[:200]
Limit == 200
\* requests.post(..., timeout=60)
Timeout == 60

----------------------------------------------------------------------------
(* JSON values as json.loads yields them.  A value carries its Python type *)
(* in t; strings are represented by a number: for the date strings this is *)
(* the rank of the string in Python's string order.                        *)

None == [t |-> "NoneType"]
Str(n) == [t |-> "str", v |-> n]
Num(n) == [t |-> "int", v |-> n]
Dict(f) == [t |-> "dict", v |-> f]

\* d.get(k) of a dict d
Get(d, k) == IF k \in DOMAIN d.v THEN d.v[k] ELSE None

\* d.get(k, default) of a dict d
GetDefault(d, k, default) == IF k \in DOMAIN d.v THEN d.v[k] ELSE default

\* the dict {}
EmptyDict == Dict([k \in {} |-> None])

----------------------------------------------------------------------------
(* Exceptions: the part of Python's class hierarchy the handlers decide on *)

Parent(c) ==
    CASE c = "FileNotFoundError" -> "OSError"
      [] c = "PermissionError" -> "OSError"
      [] c = "OSError" -> "Exception"
      [] c = "JSONDecodeError" -> "ValueError"
      [] c = "UnicodeDecodeError" -> "ValueError"
      [] c = "ValueError" -> "Exception"
      [] c = "AttributeError" -> "Exception"
      [] c = "TypeError" -> "Exception"
      [] c = "Timeout" -> "RequestException"
      [] c = "ConnectionError" -> "RequestException"
      [] c = "HTTPError" -> "RequestException"
      [] c = "RequestsJSONDecodeError" -> "RequestException"
      [] c = "RequestException" -> "OSError"
      [] c = "Exception" -> "BaseException"
      [] OTHER -> "object"

RECURSIVE IsInstance(_, _)
\* isinstance(e, c) for an exception of class e
IsInstance(e, c) ==
    IF e = c THEN TRUE
    ELSE IF e = "object" THEN FALSE
    ELSE IsInstance(Parent(e), c)

NoExc == "none"

----------------------------------------------------------------------------
(* run_snscrape: one line of the child's standard output *)

\* a line is text: either it is a JSON document (val its value) or it is not
JsonLine(val) == [json |-> TRUE, val |-> val]
Malformed == [json |-> FALSE, val |-> None]

\* json.loads(line.strip())
JsonLoads(line) ==
    IF line.json THEN [exc |-> NoExc, val |-> line.val]
    ELSE [exc |-> "JSONDecodeError", val |-> None]

\* x.get(...) raises AttributeError unless x is a dict
HasGet(x) == x.t = "dict"

\* lines 38-46: the record built from the decoded line
BuildRecord(tweet_data) ==
    IF ~HasGet(tweet_data) THEN [exc |-> "AttributeError", val |-> None]
    ELSE LET user == GetDefault(tweet_data, "user", EmptyDict) IN
         IF ~HasGet(user) THEN [exc |-> "AttributeError", val |-> None]
         ELSE [exc |-> NoExc,
               val |-> [id |-> Get(tweet_data, "id"),
                        date |-> Get(tweet_data, "date"),
                        content |-> Get(tweet_data, "content"),
                        url |-> Get(tweet_data, "url"),
                        authorName |-> Get(user, "displayname"),
                        authorHandle |-> Get(user, "username"),
                        raw |-> tweet_data]]

\* the body of the inner try
ProcessLine(line) ==
    LET d == JsonLoads(line) IN
    IF d.exc # NoExc THEN d ELSE BuildRecord(d.val)

\* InnerHandler with the JSONDecodeError clause ending the loop
InnerHandlerAborting(e) ==
    IF IsInstance(e, "JSONDecodeError") THEN "propagate"
    ELSE IF IsInstance(e, "Exception") THEN "continue"
    ELSE "propagate"

\* the inner handlers: what the loop does with an exception of class e
InnerHandler(e) ==
    IF IsInstance(e, "JSONDecodeError") THEN "continue"
    ELSE IF IsInstance(e, "Exception") THEN "continue"
    ELSE "propagate"

\* OuterHandler without its second clause
OuterHandlerNotFoundOnly(e) ==
    IF IsInstance(e, "FileNotFoundError") THEN "return_empty"
    ELSE "propagate"

\* the outer handlers: what run_snscrape does with an exception of class e
OuterHandler(e) ==
    IF IsInstance(e, "FileNotFoundError") THEN "return_empty"
    ELSE IF IsInstance(e, "Exception") THEN "return_empty"
    ELSE "propagate"

----------------------------------------------------------------------------
(* run_snscrape: after the loop *)

\* Failed as proc.returncode > 0
FailedPositive(rc) == rc > 0

\* proc.returncode != 0
Failed(rc) == rc # 0

\* Less with the order of the sort turned round (reverse=True left out)
LessAscending(a, b) == a.v > b.v

\* a < b on two sort keys: Python supports it between two str only
\* (None < None and None < str raise TypeError)
CanCompare(a, b) == a.t = "str" /\ b.t = "str"
Less(a, b) == a.v < b.v

RECURSIVE Scan(_, _, _, _)
\* where x goes in the descending list s: the number p, between lo and hi,
\* of the elements of s whose key is not less than x's (x goes behind them,
\* so equal keys keep their order), found by halving; the elements up to lo
\* are known not to be less, those after hi to be less; -1: TypeError
Scan(s, x, lo, hi) ==
    IF lo >= hi THEN lo
    ELSE LET m == (lo + hi + 1) \div 2 IN
         IF ~CanCompare(s[m].date, x.date) THEN -1
         ELSE IF Less(s[m].date, x.date) THEN Scan(s, x, lo, m - 1)
         ELSE Scan(s, x, m, hi)

\* the sorted list with x put in its place, or the TypeError of a comparison
Insert(sorted, x) ==
    LET p == Scan(sorted, x, 0, Len(sorted)) IN
    IF p < 0 THEN [exc |-> "TypeError", val |-> <<>>]
    ELSE [exc |-> NoExc,
          val |-> SubSeq(sorted, 1, p) \o <<x>>
                  \o SubSeq(sorted, p + 1, Len(sorted))]

RECURSIVE InsertAll(_, _, _, _)
\* the elements lo..hi of s put one after the other, in their order, into
\* the sorted list of r, unless a comparison has raised
InsertAll(r, s, lo, hi) ==
    IF r.exc # NoExc \/ lo > hi THEN r
    ELSE IF lo = hi THEN Insert(r.val, s[lo])
    ELSE LET mid == (lo + hi) \div 2
             left == InsertAll(r, s, lo, mid)
         IN  IF left.exc # NoExc THEN left
             ELSE InsertAll(left, s, mid + 1, hi)

\* tweets.sort(key=lambda x: x["date"], reverse=True) on the first n
\* elements: a stable sort, equal keys keep their order
SortPrefix(s, n) == InsertAll([exc |-> NoExc, val |-> <<>>], s, 1, n)

SortByDate(s) == SortPrefix(s, Len(s))

\* tweets[:200]
Slice(s) == IF Len(s) <= Limit THEN s ELSE SubSeq(s, 1, Limit)

\* lines 54-63: what run_snscrape does once the stream has ended and the
\* child has exited with rc
AfterLoop(tw, rc) ==
    IF Failed(rc) THEN [exc |-> NoExc, val |-> <<>>]
    ELSE LET r == SortByDate(tw) IN
         IF r.exc # NoExc THEN r
         ELSE [exc |-> NoExc, val |-> Slice(r.val)]

----------------------------------------------------------------------------
(* The lines a child process may write *)

User(n) == Dict([k \in {"displayname", "username"} |-> Str(n)])

\* a complete post with id n, created at the date of rank d
Post(n, d) ==
    JsonLine(Dict([k \in {"id", "date", "content", "url", "user"} |->
        CASE k = "id" -> Num(n)
          [] k = "date" -> Str(d)
          [] k = "content" -> Str(n)
          [] k = "url" -> Str(n)
          [] k = "user" -> User(n)]))

\* a post whose object has no "date"
PostNoDate ==
    JsonLine(Dict([k \in {"id", "content", "url", "user"} |->
        CASE k = "id" -> Num(4)
          [] k = "content" -> Str(4)
          [] k = "url" -> Str(4)
          [] k = "user" -> User(4)]))

\* a post whose object has no "user"
PostNoUser ==
    JsonLine(Dict([k \in {"id", "date", "content", "url"} |->
        CASE k = "id" -> Num(5)
          [] k = "date" -> Str(1)
          [] k = "content" -> Str(5)
          [] k = "url" -> Str(5)]))

\* a post whose "user" is null
PostNullUser ==
    JsonLine(Dict([k \in {"id", "date", "content", "url", "user"} |->
        CASE k = "id" -> Num(6)
          [] k = "date" -> Str(2)
          [] k = "content" -> Str(6)
          [] k = "url" -> Str(6)
          [] k = "user" -> None]))

\* a post whose object has neither "id" nor "url"
PostNoId ==
    JsonLine(Dict([k \in {"date", "content", "user"} |->
        CASE k = "date" -> Str(3)
          [] k = "content" -> Str(7)
          [] k = "user" -> User(7)]))

\* a line that is JSON but no object
Scalar == JsonLine(Num(42))

Posts == {Post(1, 1), Post(2, 2), Post(3, 3)}

Lines == Posts \cup {Malformed, Scalar, PostNoDate, PostNoUser, PostNullUser,
                     PostNoId}

RunLines == {Malformed, Post(1, 1), Post(2, 2), PostNoDate}

\* the line a long stream repeats
BulkLine == Post(2, 2)

\* the streams considered: up to max lines of L, or Limit times BulkLine
\* and then up to MaxTail lines of L
StreamOK(s, L, max) ==
    \/ Len(s) <= max
    \/ /\ Len(s) <= Limit + MaxTail
       /\ \A i \in 1..Len(s) : i <= Limit => s[i] = BulkLine

----------------------------------------------------------------------------
(* push_tweets *)

\* a str of the environment, by its text
Text(s) == [t |-> "str", s |-> s]

\* Falsy as x is None
FalsyNoneOnly(x) == x.t = "NoneType"

\* not x, for x None or a str
Falsy(x) == x.t = "NoneType" \/ (x.t = "str" /\ x.s = "")

\* json.dumps(x): the text of the JSON document whose value is x
JsonDumps(x) == JsonLine(x)

\* lines 79-84 and 89-92: the request handed to requests.post
Request(url, token, tw) ==
    [url |-> url,
     headers |-> [k \in {"X-INGEST-TOKEN", "Content-Type"} |->
                    IF k = "X-INGEST-TOKEN" THEN token
                    ELSE Text("application/json")],
     data |-> JsonDumps(Dict([k \in {"tweets"} |-> tw])),
     timeout |-> Timeout]

\* Posted with one more attempt after a timeout or a connection failure
PostedWithRetry(req, resp) ==
    IF resp.kind # "response" THEN <<req, req>> ELSE <<req>>

\* lines 88-93: the requests one call of push_tweets hands to requests.post
\* when the post meets resp
Posted(req, resp) == <<req>>

\* response.raise_for_status() raises HTTPError
RaiseForStatus(status) == 400 <= status /\ status < 600

\* response.json()
ResponseJson(body) ==
    IF body.json THEN [exc |-> NoExc, val |-> body.val]
    ELSE [exc |-> "RequestsJSONDecodeError", val |-> None]

\* printed in place of a count when nothing was printed
NotReported == [t |-> "nothing"]

\* lines 88-99: from the post to the return, when the post meets resp
AfterPost(resp) ==
    IF resp.kind # "response" THEN [exc |-> resp.kind, val |-> NotReported]
    ELSE IF RaiseForStatus(resp.status)
    THEN [exc |-> "HTTPError", val |-> NotReported]
    ELSE LET j == ResponseJson(resp.body) IN
         IF j.exc # NoExc THEN [exc |-> j.exc, val |-> NotReported]
         ELSE IF ~HasGet(j.val)
         THEN [exc |-> "AttributeError", val |-> NotReported]
         ELSE [exc |-> NoExc, val |-> GetDefault(j.val, "inserted", Num(0))]

\* the handlers of push_tweets
PushHandler(e) ==
    IF IsInstance(e, "RequestException") THEN "return_false"
    ELSE IF IsInstance(e, "Exception") THEN "return_false"
    ELSE "propagate"

\* what the ingest endpoint may answer, or the post may fail with
Statuses == {101, 200, 201, 204, 304, 404, 500}

Bodies == {Malformed,
           JsonLine(Dict([k \in {"inserted"} |-> Num(2)])),
           JsonLine(Dict([k \in {"inserted"} |-> None])),
           JsonLine(EmptyDict),
           JsonLine(Num(1))}

Responses ==
    [kind : {"response"}, status : Statuses, body : Bodies]
    \cup [kind : {"Timeout", "ConnectionError"}, status : {0}, body : {Malformed}]

NoResponse == [kind |-> "none", status |-> 0, body |-> Malformed]

----------------------------------------------------------------------------
(* main *)

\* Batch as the first record only
BatchFirstOnly(tw) == SubSeq(tw, 1, 1)

\* line 131: the list main hands to push_tweets
Batch(tw) == tw

\* line 124: not tweets
NoTweets(tw) == tw = <<>>

----------------------------------------------------------------------------
(* Initial states *)

EnvValues == {None, Text(""), Text("set")}

\* no child process, or one whose pipes are not modelled
NoProc == [state |-> "none", todo |-> <<>>, stdout |-> <<>>, stderr |-> 0,
           status |-> 0]

InitCommon ==
    /\ popens = 0
    /\ out = <<>>
    /\ tweets = <<>>
    /\ returncode = None
    /\ result = <<>>
    /\ requests = <<>>
    /\ response = NoResponse
    /\ pushRet = "None"
    /\ reported = NotReported
    /\ caught = NoExc
    /\ escaped = NoExc
    /\ exited = FALSE
    /\ exitStatus = 0
    /\ proc = NoProc

\* python scrape_and_push.py, under any environment
InitMain ==
    /\ InitCommon
    /\ INGEST_URL \in EnvValues
    /\ INGEST_TOKEN \in EnvValues
    /\ pc = "Idle"
    /\ cpc = "idle"
    /\ ppc = "idle"
    /\ pushCalls = <<>>

\* the record run_snscrape makes of a line
RecordOf(line) == ProcessLine(line).val

\* the lists push_tweets is called with directly
DirectBatches ==
    {<<>>, <<RecordOf(Post(1, 1))>>,
     <<RecordOf(Post(2, 2)), RecordOf(Post(1, 1))>>}

\* a direct call push_tweets(tw), as test_scraper.py imports it
InitPush ==
    /\ InitCommon
    /\ INGEST_URL \in EnvValues
    /\ INGEST_TOKEN \in EnvValues
    /\ pc = "NoMain"
    /\ cpc = "idle"
    /\ ppc = "called"
    /\ pushCalls \in {<<tw>> : tw \in DirectBatches}

\* a direct call run_snscrape(), as test_scraper.py makes it
InitCollector ==
    /\ InitCommon
    /\ INGEST_URL = Text("set")
    /\ INGEST_TOKEN = Text("set")
    /\ pc = "NoMain"
    /\ cpc = "start"
    /\ ppc = "idle"
    /\ pushCalls = <<>>

----------------------------------------------------------------------------
(* Actions of run_snscrape *)

\* run_snscrape ends with outcome o: a value to return or an exception
\* that reaches the outer handlers
CollectorEnds(o) ==
    IF o.exc = NoExc
    THEN /\ cpc' = "returned"
         /\ result' = o.val
         /\ UNCHANGED <<caught, escaped>>
    ELSE IF OuterHandler(o.exc) = "return_empty"
    THEN /\ cpc' = "returned"
         /\ result' = <<>>
         /\ caught' = o.exc
         /\ UNCHANGED escaped
    ELSE /\ cpc' = "raised"
         /\ escaped' = o.exc
         /\ UNCHANGED <<result, caught>>

\* lines 27-34: subprocess.Popen succeeds, or raises
Popen ==
    /\ cpc = "start"
    /\ popens' = popens + 1
    /\ \E e \in {NoExc, "FileNotFoundError", "PermissionError"} :
          IF e = NoExc
          THEN /\ cpc' = "reading"
               /\ UNCHANGED <<result, caught, escaped>>
          ELSE CollectorEnds([exc |-> e, val |-> <<>>])
    /\ UNCHANGED <<out, tweets, returncode>>
    /\ UNCHANGED <<proc, envVars, mainVars, pushVars>>

\* lines 36-51: the loop body on a line just read
LoopBody(line) ==
    /\ out' = Append(out, line)
    /\ LET r == ProcessLine(line) IN
       IF r.exc = NoExc
       THEN /\ tweets' = Append(tweets, r.val)
            /\ UNCHANGED <<cpc, result, caught, escaped>>
       ELSE IF InnerHandler(r.exc) = "continue"
       THEN UNCHANGED <<tweets, cpc, result, caught, escaped>>
       ELSE /\ CollectorEnds(r)
            /\ UNCHANGED tweets

\* lines 35-51: the child writes one more line and the loop body runs on it
ReadLine(L, max) ==
    /\ cpc = "reading"
    /\ \E line \in {l \in L : StreamOK(Append(out, l), L, max)} :
          LoopBody(line)
    /\ UNCHANGED <<popens, returncode>>
    /\ UNCHANGED <<proc, envVars, mainVars, pushVars>>

\* line 35: reading the pipe raises (text=True: bytes that are no text)
ReadError ==
    /\ cpc = "reading"
    /\ CollectorEnds([exc |-> "UnicodeDecodeError", val |-> <<>>])
    /\ UNCHANGED <<popens, out, tweets, returncode>>
    /\ UNCHANGED <<proc, envVars, mainVars, pushVars>>

\* the exit statuses of the child: success, failure, killed by a signal
ExitCodes == {0, 1, -9}

\* lines 35 and 54-63: end of stream, proc.wait(), and what follows it
Finish ==
    /\ cpc = "reading"
    /\ \E rc \in ExitCodes :
          /\ returncode' = Num(rc)
          /\ CollectorEnds(AfterLoop(tweets, rc))
    /\ UNCHANGED <<popens, out, tweets>>
    /\ UNCHANGED <<proc, envVars, mainVars, pushVars>>

----------------------------------------------------------------------------
(* Action of push_tweets *)

\* lines 72-106: one call of push_tweets, whatever the post meets
PushTweets ==
    /\ ppc = "called"
    /\ LET tw == pushCalls[Len(pushCalls)] IN
       IF Falsy(INGEST_URL) \/ Falsy(INGEST_TOKEN)
       THEN /\ ppc' = "returned"
            /\ pushRet' = "False"
            /\ UNCHANGED <<requests, response, reported, escaped>>
       ELSE \E resp \in Responses :
            LET req == Request(INGEST_URL, INGEST_TOKEN, tw)
                o == AfterPost(resp)
            IN  /\ requests' = requests \o Posted(req, resp)
                /\ response' = resp
                /\ IF o.exc = NoExc
                   THEN /\ ppc' = "returned"
                        /\ pushRet' = "True"
                        /\ reported' = o.val
                        /\ UNCHANGED escaped
                   ELSE IF PushHandler(o.exc) = "return_false"
                   THEN /\ ppc' = "returned"
                        /\ pushRet' = "False"
                        /\ UNCHANGED <<reported, escaped>>
                   ELSE /\ ppc' = "raised"
                        /\ escaped' = o.exc
                        /\ UNCHANGED <<pushRet, reported>>
    /\ UNCHANGED pushCalls
    /\ UNCHANGED <<proc, envVars, mainVars, collectorVars>>

----------------------------------------------------------------------------
(* Actions of main *)

\* Exit with the status left at 0 (sys.exit(1) left out)
ExitAlwaysZero(state, status) ==
    /\ pc' = state
    /\ exited' = TRUE
    /\ exitStatus' = 0

\* sys.exit(status), or main returning (status 0)
Exit(state, status) ==
    /\ pc' = state
    /\ exited' = TRUE
    /\ exitStatus' = status

\* lines 113-122: the two checks, then the call of run_snscrape
MainStart ==
    /\ pc = "Idle"
    /\ IF Falsy(INGEST_URL) \/ Falsy(INGEST_TOKEN)
       THEN /\ Exit("ConfigError", 1)
            /\ UNCHANGED cpc
       ELSE /\ pc' = "Collecting"
            /\ cpc' = "start"
            /\ UNCHANGED <<exited, exitStatus>>
    /\ UNCHANGED <<popens, out, tweets, returncode, result, caught, escaped>>
    /\ UNCHANGED <<proc, envVars, pushVars>>

\* lines 122-128: run_snscrape is back
MainCollected ==
    /\ pc = "Collecting"
    /\ cpc \in {"returned", "raised"}
    /\ IF cpc = "raised" THEN Exit("Crashed", 1)
       ELSE IF NoTweets(result) THEN Exit("Empty", 0)
       ELSE /\ pc' = "Collected"
            /\ UNCHANGED <<exited, exitStatus>>
    /\ UNCHANGED <<proc, envVars, collectorVars, pushVars, escaped>>

\* line 131: the call of push_tweets
MainDeliver ==
    /\ pc = "Collected"
    /\ pc' = "Delivering"
    /\ ppc' = "called"
    /\ pushCalls' = Append(pushCalls, Batch(result))
    /\ UNCHANGED <<requests, response, pushRet, reported>>
    /\ UNCHANGED <<proc, envVars, collectorVars, escaped, exited, exitStatus>>

\* lines 131-137: push_tweets is back
MainFinish ==
    /\ pc = "Delivering"
    /\ ppc \in {"returned", "raised"}
    /\ IF ppc = "raised" THEN Exit("Crashed", 1)
       ELSE IF pushRet = "True" THEN Exit("Delivered", 0)
       ELSE Exit("DeliveryFailed", 1)
    /\ UNCHANGED <<proc, envVars, collectorVars, pushVars, escaped>>

----------------------------------------------------------------------------
(* Specifications *)

\* a run of the program, or a direct call of push_tweets
Init == InitMain \/ InitPush

Next ==
    \/ MainStart
    \/ Popen
    \/ ReadLine(RunLines, MaxRunLines)
    \/ ReadError
    \/ Finish
    \/ MainCollected
    \/ MainDeliver
    \/ PushTweets
    \/ MainFinish

Spec == Init /\ [][Next]_vars

\* a direct call of run_snscrape, on every stream of Lines within the bounds
NextCollector ==
    \/ Popen
    \/ ReadLine(Lines, MaxLines)
    \/ ReadError
    \/ Finish

SpecCollector == InitCollector /\ [][NextCollector]_vars

----------------------------------------------------------------------------
(* run_snscrape with the child process and its two pipes modelled:           *)
(* Popen(stdout=PIPE, stderr=PIPE) gives the child two pipes of bounded      *)
(* capacity; a write to a full pipe blocks the child, a read of an empty     *)
(* pipe whose write end is open blocks the reader.                           *)

\* one write of the child: a line to standard output, or a chunk to
\* standard error
WriteOut(line) == [fd |-> "stdout", line |-> line]
WriteErr == [fd |-> "stderr", line |-> Malformed]

Writes == {WriteErr, WriteOut(Malformed), WriteOut(Post(1, 1))}

RECURSIVE SeqsUpTo(_, _)
\* the sequences over S of length at most n
SeqsUpTo(S, n) ==
    IF n = 0 THEN {<<>>}
    ELSE LET shorter == SeqsUpTo(S, n - 1) IN
         shorter \cup {Append(q, x) : q \in shorter, x \in S}

\* what a child does: a finite sequence of writes, then it exits
Scripts == SeqsUpTo(Writes, MaxWrites)

\* lines 27-34: subprocess.Popen starts a child that will run some script
\* and exit with some status, or raises
PipePopen ==
    /\ cpc = "start"
    /\ popens' = popens + 1
    /\ \E e \in {NoExc, "FileNotFoundError", "PermissionError"} :
          IF e = NoExc
          THEN /\ cpc' = "reading"
               /\ \E script \in Scripts, rc \in ExitCodes :
                     proc' = [state |-> "running", todo |-> script,
                              stdout |-> <<>>, stderr |-> 0, status |-> rc]
               /\ UNCHANGED <<result, caught, escaped>>
          ELSE /\ CollectorEnds([exc |-> e, val |-> <<>>])
               /\ UNCHANGED proc
    /\ UNCHANGED <<out, tweets, returncode>>
    /\ UNCHANGED <<envVars, mainVars, pushVars>>

\* the child makes its next write, once the pipe has room for it
ChildWrite ==
    /\ proc.state = "running"
    /\ proc.todo # <<>>
    /\ LET w == Head(proc.todo) IN
       IF w.fd = "stdout"
       THEN /\ Len(proc.stdout) < PipeCap
            /\ proc' = [proc EXCEPT !.todo = Tail(@),
                                    !.stdout = Append(@, w.line)]
       ELSE /\ proc.stderr < PipeCap
            /\ proc' = [proc EXCEPT !.todo = Tail(@), !.stderr = @ + 1]
    /\ UNCHANGED <<envVars, mainVars, pushVars, collectorVars, escaped>>

\* the child has made all its writes and exits: both pipes are closed
ChildExit ==
    /\ proc.state = "running"
    /\ proc.todo = <<>>
    /\ proc' = [proc EXCEPT !.state = "exited"]
    /\ UNCHANGED <<envVars, mainVars, pushVars, collectorVars, escaped>>

\* lines 35-51: the loop takes the next line out of the stdout pipe
PipeReadLine ==
    /\ cpc = "reading"
    /\ proc.stdout # <<>>
    /\ LoopBody(Head(proc.stdout))
    /\ proc' = [proc EXCEPT !.stdout = Tail(@)]
    /\ UNCHANGED <<popens, returncode>>
    /\ UNCHANGED <<envVars, mainVars, pushVars>>

\* lines 35 and 54-63: the stdout pipe is empty and closed (end of stream),
\* proc.wait() returns, stderr is read when the status is non-zero
PipeFinish ==
    /\ cpc = "reading"
    /\ proc.stdout = <<>>
    /\ proc.state = "exited"
    /\ returncode' = Num(proc.status)
    /\ proc' = IF Failed(proc.status) THEN [proc EXCEPT !.stderr = 0] ELSE proc
    /\ CollectorEnds(AfterLoop(tweets, proc.status))
    /\ UNCHANGED <<popens, out, tweets>>
    /\ UNCHANGED <<envVars, mainVars, pushVars>>

NextPipes ==
    \/ PipePopen
    \/ ChildWrite
    \/ ChildExit
    \/ PipeReadLine
    \/ PipeFinish

\* a direct call of run_snscrape, with the child and its pipes
SpecPipes == InitCollector /\ [][NextPipes]_vars

----------------------------------------------------------------------------
(* Properties *)

\* the number of places of s that hold an element of S
CountIn(s, S) == Cardinality({i \in 1..Len(s) : s[i] \in S})

Min(a, b) == IF a <= b THEN a ELSE b

\* run_snscrape returned after the child exited with status 0
ReturnedAfterSuccess == cpc = "returned" /\ returncode = Num(0)

\* run_snscrape returned after the child exited with another status
ReturnedAfterFailure ==
    cpc = "returned" /\ returncode.t = "int" /\ returncode.v # 0

\* every line of s that is in S has its object as the raw of a record of r
AllKept(s, S, r) ==
    \A i \in 1..Len(s) :
        s[i] \in S => \E j \in 1..Len(r) : r[j].raw = s[i].val

\* C1: the list run_snscrape returns has at most 200 records, and each
\* record's date is a str not less than the date of the record after it.
C1_BoundedAndDescending ==
    cpc = "returned" =>
        /\ Len(result) <= Limit
        /\ \A i \in 1..(Len(result) - 1) :
              /\ result[i].date.t = "str"
              /\ result[i + 1].date.t = "str"
              /\ result[i].date.v >= result[i + 1].date.v

\* more than 200 records were collected, 200 came back, of two dates
C1_Witness ==
    /\ ReturnedAfterSuccess
    /\ Len(tweets) > Limit
    /\ Len(result) = Limit
    /\ result[1].date.v > result[Limit].date.v

\* C2: after a non-zero exit status run_snscrape returns the empty list,
\* whatever was collected before.
C2_FailureReturnsEmpty == ReturnedAfterFailure => result = <<>>

\* records had been collected when the child exited with a non-zero status
C2_Witness ==
    /\ ReturnedAfterFailure
    /\ Len(tweets) >= 2
    /\ result = <<>>

\* C3: a line that is not JSON never ends the call (its decode error does
\* not reach the outer handler), and after exit status 0, on a stream of
\* complete posts and malformed lines, every post yields a record (up to the
\* limit) and the malformed lines yield none; three posts of dates 1 < 2 < 3
\* and one malformed line in any order come back as the three records of
\* dates 3, 2, 1.
C3_MalformedLineSkipped ==
    /\ caught # "JSONDecodeError"
    /\ ( /\ ReturnedAfterSuccess
         /\ \A i \in 1..Len(out) : out[i] \in Posts \cup {Malformed}
         /\ CountIn(out, {Malformed}) >= 1 )
       => /\ Len(result) = Min(CountIn(out, Posts), Limit)
          /\ CountIn(out, Posts) <= Limit => AllKept(out, Posts, result)
          /\ ( /\ Len(out) = 4
               /\ \A l \in Posts \cup {Malformed} : CountIn(out, {l}) = 1 )
             => [i \in 1..3 |-> result[i].raw]
                   = <<Post(3, 3).val, Post(2, 2).val, Post(1, 1).val>>

\* a malformed line between the first and the later posts, three records back
C3_Witness ==
    /\ ReturnedAfterSuccess
    /\ Len(out) = 4
    /\ out[2] = Malformed
    /\ \A l \in Posts : CountIn(out, {l}) = 1
    /\ out[1] = Post(1, 1)
    /\ Len(result) = 3
    /\ result[1].date = Str(3)

\* the lines that decode as JSON and are bad records
BadRecords == {Scalar, PostNoDate, PostNoUser, PostNullUser, PostNoId}

\* C4: after exit status 0, on a stream of complete posts and one bad
\* record, every complete post has its record in the result.
C4_BadRecordKeepsOthers ==
    ( /\ ReturnedAfterSuccess
      /\ \A i \in 1..Len(out) : out[i] \in Posts \cup BadRecords
      /\ CountIn(out, BadRecords) = 1
      /\ CountIn(out, Posts) < Limit )
    => AllKept(out, Posts, result)

\* C5: no exception leaves run_snscrape, and whenever its outer handler
\* took an exception, or the exit status was non-zero, it returned [].
C5_NoExceptionEscapes ==
    /\ cpc # "raised"
    /\ escaped = NoExc
    /\ (cpc = "returned" /\ caught # NoExc) => result = <<>>
    /\ ReturnedAfterFailure => result = <<>>

\* the sort raised on collected records and the call returned []
C5_Witness ==
    /\ cpc = "returned"
    /\ caught = "TypeError"
    /\ Len(tweets) >= 2
    /\ result = <<>>

\* both credentials are present
Configured == ~Falsy(INGEST_URL) /\ ~Falsy(INGEST_TOKEN)

\* the post was answered with an HTTP status
Answered == response.kind = "response"

Is2xx(status) == 200 <= status /\ status <= 299

\* C6: with both credentials present, a finished call of push_tweets has
\* made exactly one request, whose body is the JSON text of {"tweets": the
\* list it was called with}, whatever the post met.
C6_ExactlyOneRequest ==
    (Configured /\ ppc \in {"returned", "raised"}) =>
        /\ Len(requests) = 1
        /\ requests[1].data.json
        /\ requests[1].data.val.t = "dict"
        /\ DOMAIN requests[1].data.val.v = {"tweets"}
        /\ requests[1].data.val.v["tweets"] = pushCalls[Len(pushCalls)]

\* push_tweets([]) met a timeout and made one request, of an empty batch
C6_Witness ==
    /\ Configured
    /\ ppc = "returned"
    /\ pushCalls = << <<>> >>
    /\ response.kind = "Timeout"
    /\ Len(requests) = 1
    /\ requests[1].data.val.v["tweets"] = <<>>

\* C7: after a timeout, a transport failure or an answer whose status is
\* not 2xx, push_tweets returns False and raises nothing.
C7_Non2xxFails ==
    ( /\ ppc \in {"returned", "raised"}
      /\ requests # <<>>
      /\ (Answered => ~Is2xx(response.status)) )
    => (ppc = "returned" /\ pushRet = "False" /\ escaped = NoExc)

\* the count a 2xx answer of this body is to be reported with
InsertedOf(body) ==
    IF body.json /\ body.val.t = "dict" /\ "inserted" \in DOMAIN body.val.v
    THEN body.val.v["inserted"]
    ELSE Num(0)

\* C8: after a 2xx answer push_tweets returns True whatever the body, and
\* reports the body's inserted, or zero when there is none.
C8_2xxSucceeds ==
    ( /\ ppc \in {"returned", "raised"}
      /\ Answered
      /\ Is2xx(response.status) )
    => (ppc = "returned" /\ pushRet = "True"
        /\ reported = InsertedOf(response.body))

\* a credential is None or ""
Unconfigured ==
    \/ INGEST_URL \in {None, Text("")}
    \/ INGEST_TOKEN \in {None, Text("")}

\* C9: with a credential unset or empty, main is in Idle or has ended in
\* ConfigError with a non-zero exit status, run_snscrape was never called,
\* no process was started and no request made; and push_tweets called
\* directly makes no request and returns False.
C9_MissingCredential ==
    Unconfigured =>
        /\ requests = <<>>
        /\ popens = 0
        /\ cpc = "idle"
        /\ pc \in {"Idle", "ConfigError", "NoMain"}
        /\ pc = "ConfigError" <=> exited
        /\ exited => exitStatus # 0
        /\ ppc = "returned" => pushRet = "False"
        /\ ppc # "raised"

\* main ended in ConfigError on an empty token, the endpoint being set
C9_Witness ==
    /\ pc = "ConfigError"
    /\ INGEST_TOKEN = Text("")
    /\ INGEST_URL = Text("set")
    /\ exited
    /\ exitStatus = 1

\* the states of main in which push_tweets has been called
DeliveryStates == {"Delivering", "Delivered", "DeliveryFailed"}

\* C10: in a run of main push_tweets is called at most once, after
\* run_snscrape returned a non-empty list, with that whole list; on an empty
\* list the run ends in Empty with no call and no request.
C10_OneDeliveryOfWholeList ==
    pc # "NoMain" =>
        /\ Len(pushCalls) <= 1
        /\ Len(requests) <= 1
        /\ pushCalls # <<>> =>
              /\ cpc = "returned"
              /\ result # <<>>
              /\ pushCalls[1] = result
        /\ requests # <<>> =>
              /\ pushCalls # <<>>
              /\ requests[1].data.val.v["tweets"] = result
        /\ pc \in DeliveryStates <=> pushCalls # <<>>
        /\ (cpc = "returned" /\ result = <<>>) => pc \in {"Collecting", "Empty"}
        /\ pc = "Empty" => (cpc = "returned" /\ result = <<>> /\ exited)

\* a list of two records of different dates was delivered
C10_Witness ==
    /\ pc = "Delivered"
    /\ Len(result) = 2
    /\ result[1].date # result[2].date
    /\ Len(requests) = 1
    /\ pushCalls = <<result>>

\* the terminal states of a run
TerminalStates == {"ConfigError", "Empty", "Delivered", "DeliveryFailed"}

\* run_snscrape returned after the mechanism could not be run, exited with
\* a non-zero status, or gave no line that made a record
CollectionFailed ==
    /\ cpc = "returned"
    /\ \/ caught # NoExc
       \/ ReturnedAfterFailure
       \/ tweets = <<>>

\* C11: a run of main has exited exactly when it is in one of the four
\* terminal states; its exit status is non-zero exactly in ConfigError and
\* DeliveryFailed; a failed collection ends it in Empty with status 0 and no
\* request; a delivery that timed out ends it in DeliveryFailed with a
\* non-zero status after its one request.
C11_TerminalStatesAndExitStatus ==
    pc # "NoMain" =>
        /\ exited <=> pc \in TerminalStates
        /\ pc # "Crashed"
        /\ exited => exitStatus \in {0, 1}
        /\ exited => (exitStatus # 0 <=> pc \in {"ConfigError", "DeliveryFailed"})
        /\ (exited /\ CollectionFailed) =>
              (pc = "Empty" /\ exitStatus = 0 /\ requests = <<>>)
        /\ (exited /\ response.kind \in {"Timeout", "ConnectionError"}) =>
              (pc = "DeliveryFailed" /\ exitStatus # 0 /\ Len(requests) = 1)
        /\ pc = "Delivered" <=> (exited /\ pushRet = "True")
        /\ pc = "DeliveryFailed" <=> (exited /\ pushRet = "False")

\* five records were collected, the delivery timed out, the run exited 1
C11_Witness ==
    /\ pc = "DeliveryFailed"
    /\ Len(result) = 5
    /\ pushCalls = <<result>>
    /\ response.kind = "Timeout"
    /\ Len(requests) = 1
    /\ exited
    /\ exitStatus = 1

\* every record of tw that is not in r has a date not after any date in r
LeftOutNotNewer(tw, r) ==
    \A i \in 1..Len(tw) :
        (\A j \in 1..Len(r) : r[j] # tw[i]) =>
            \A j \in 1..Len(r) :
                /\ tw[i].date.t = "str"
                /\ r[j].date.t = "str"
                /\ tw[i].date.v <= r[j].date.v

\* C12: after exit status 0, when more than 200 lines made records exactly
\* 200 come back and no record left out is newer than one that came back;
\* when 200 or fewer made records, all of them come back.
C12_MostRecentReturned ==
    ReturnedAfterSuccess =>
        /\ Len(tweets) > Limit =>
              (Len(result) = Limit /\ LeftOutNotNewer(tweets, result))
        /\ Len(tweets) <= Limit =>
              /\ Len(result) = Len(tweets)
              /\ \A i \in 1..Len(tweets) :
                    \E j \in 1..Len(result) : result[j] = tweets[i]

\* C13: every record run_snscrape returns has an id, a url and a raw that
\* are not None, and its raw is the decoded object of a line that was read.
C13_RecordCarriesIdUrlRaw ==
    cpc = "returned" =>
        \A j \in 1..Len(result) :
            /\ result[j].id # None
            /\ result[j].url # None
            /\ result[j].raw # None
            /\ \E i \in 1..Len(out) :
                  out[i].json /\ result[j].raw = out[i].val

\* the lines whose object has no author: "user" absent, "user" null
NoAuthorLines == {PostNoUser, PostNullUser}

\* C14: after exit status 0, on a stream of complete posts and posts
\* without an author, every post without an author has its record in the
\* result, with authorName and authorHandle None.
C14_MissingAuthorKept ==
    ( /\ ReturnedAfterSuccess
      /\ \A i \in 1..Len(out) : out[i] \in Posts \cup NoAuthorLines
      /\ Len(out) <= Limit )
    => \A i \in 1..Len(out) :
          out[i] \in NoAuthorLines =>
              \E j \in 1..Len(result) :
                  /\ result[j].raw = out[i].val
                  /\ result[j].authorName = None
                  /\ result[j].authorHandle = None

\* C15: run_snscrape and its child cannot deadlock: as long as the call
\* has not returned, the child or the call can take a step.
C15_NoDeadlock ==
    cpc \in {"start", "reading"} => ENABLED NextPipes

====
